---- MODULE Spec2Model ----
(***************************************************************************)
(* Model of ota_github_server.py: an OTA file server that mirrors the      *)
(* tagged releases of GitHub repositories into ota_files/<project>/<tag>/  *)
(* and keeps a per-project "version" pointer file.                         *)
(*                                                                         *)
(* Two threads run: the request thread of HTTPServer (one request at a     *)
(* time: HTTPServer is not a threading server) and the daemon thread       *)
(* periodic_sync.  They share the file system and take no lock.  Every     *)
(* action below is one file-system or network operation of one thread, so  *)
(* that the interleavings of the model are those of the two threads.       *)
(*                                                                         *)
(* Strings that the code compares, sorts or writes (tag names, pointer     *)
(* file contents) are sequences of character codes: "." is 46 and the      *)
(* digits "0".."9" are 48..57.                                             *)
(***************************************************************************)
EXTENDS Integers, Sequences, FiniteSets, TLC

VARIABLES
    remote,     \* per repo, the host's tag list in the host's order
    dirs,       \* per project, the version directories: directory name -> the files in it
    version,    \* per project, the "version" file: whether it exists, and its content
    th,         \* the two threads: th.http (request thread), th.bg (periodic_sync)
    verBy,      \* history: per project, the last completed write of "version": by whom, what
    done,       \* history: per project, the tags whose fetch_github_release ran to its end
    last        \* history: the request answered last, if nothing has happened since

vars == <<remote, dirs, version, th, verBy, done, last>>

----------------------------------------------------------------------------
(* Bounds of the model *)

\* how many tags of TagPool the hosts may publish
NumTags == 2

\* how many tags the second repository may publish
NumLibTags == 1

----------------------------------------------------------------------------
(* Strings *)

\* the decimal digits of n as character codes, as str(n) gives them
RECURSIVE Digits(_)
Digits(n) == IF n < 10 THEN <<48 + n>> ELSE Digits(n \div 10) \o <<48 + (n % 10)>>

\* the name of the tag major.minor.patch
TagName(major, minor, patch) ==
    Digits(major) \o <<46>> \o Digits(minor) \o <<46>> \o Digits(patch)

\* Python's str < str: lexicographic on the code points, a proper prefix first
StrLess(a, b) ==
    \E k \in 1..(Len(a) + 1) :
        /\ \A j \in 1..(k - 1) : j <= Len(b) /\ a[j] = b[j]
        /\ \/ k = Len(a) + 1 /\ k <= Len(b)
           \/ k <= Len(a) /\ k <= Len(b) /\ a[k] < b[k]

\* Python's sorted() of a set of distinct strings
RECURSIVE sorted(_)
sorted(S) ==
    IF S = {} THEN <<>>
    ELSE LET m == CHOOSE x \in S : \A y \in S \ {x} : StrLess(x, y)
         IN  <<m>> \o sorted(S \ {m})

----------------------------------------------------------------------------
(* The environment: the repositories and their release archives *)

\* the tags the hosts may publish, by name
TagPool == << TagName(10, 0, 0), TagName(9, 0, 0), TagName(2, 0, 0) >>

Tags == { TagPool[n] : n \in 1..NumTags }

None == "None"

\* the projects file of the model: two projects, in the file's order
ProjectOrder == << "app", "lib" >>
PROJECTS == [ p \in {"app", "lib"} |-> IF p = "app" THEN "acme/app" ELSE "acme/lib" ]

Repos == { PROJECTS[p] : p \in DOMAIN PROJECTS }

\* the tags a repository may publish
RepoTags(repo) ==
    IF repo = "acme/app" THEN Tags ELSE { TagPool[n] : n \in 1..NumLibTags }

\* an entry of a release archive: its base name, whether its path holds "/src/",
\* whether it ends with ".py"
Entry(base, inSrc, isPy) == [ base |-> base, inSrc |-> inSrc, isPy |-> isPy ]

\* the entries of the archive of a tag, in the archive's order.  The releases of
\* acme/lib keep their sources outside src/.
Archive(repo, tag) ==
    IF repo = "acme/lib"
    THEN << Entry("README.md", FALSE, FALSE), Entry("lib.py", FALSE, TRUE) >>
    ELSE IF Len(tag) > 5
    THEN << Entry("main.py", TRUE, TRUE), Entry("README.md", FALSE, FALSE),
            Entry("util.py", TRUE, TRUE) >>
    ELSE << Entry("main.py", TRUE, TRUE), Entry("notes.txt", TRUE, FALSE) >>

\* the files fetch_github_release takes from an archive, by the name it writes
\* each under, in the archive's order
SelectedNames(entries) ==
    LET keep == SelectSeq(entries, LAMBDA e : e.isPy /\ e.inSrc)
    IN  [ n \in 1..Len(keep) |-> keep[n].base ]

----------------------------------------------------------------------------
(* The file system *)

\* a file that does not exist, and a file with a content
NoFile == [ exists |-> FALSE, content |-> <<>> ]
File(content) == [ exists |-> TRUE, content |-> content ]

\* os.path.exists(OTA_DIR/project): the project directory is made by the first
\* os.makedirs of one of its version directories, and nothing removes it
ProjectDirExists(p) == DOMAIN dirs[p] # {}

\* the test of lines 204-207 with the listing taken the other way round: a
\* variant that C20 must tell from the code
EmptyDirSynced(p, tag) == tag \in DOMAIN dirs[p] /\ dirs[p][tag] = {}

\* the test of lines 204-207 never finding the directory filled: a variant that
\* C17 must tell from the code
NeverSynced(p, tag) == FALSE

\* os.listdir(release_path), no file when the directory does not exist
Listing(p, tag) == IF tag \in DOMAIN dirs[p] THEN dirs[p][tag] ELSE {}

\* os.path.exists(release_path) and os.listdir(release_path)
AlreadySynced(p, tag) == tag \in DOMAIN dirs[p] /\ dirs[p][tag] # {}

\* makedirs with the directory not made: a variant that C9 must tell from the code
MakedirsOmitted(d, tag) == d

\* os.makedirs(release_path, exist_ok=True)
makedirs(d, tag) ==
    IF tag \in DOMAIN d THEN d
    ELSE [ x \in DOMAIN d \cup {tag} |-> IF x = tag THEN {} ELSE d[x] ]

\* open(path, "w"): the file is created or truncated when it is opened
OpenForWrite(f) == File(<<>>)

\* the write that closing the file flushes: the bytes go to offset 0 of the file
\* as it is then, and what the file holds beyond them stays
WriteAtStart(f, data) ==
    File(data \o SubSeq(f.content, Len(data) + 1, Len(f.content)))

\* one "version" file for all the projects: a variant that C16 must tell from
\* the code
SharedVersionFile(project) == "app"

\* version_file = os.path.join(OTA_DIR, project, "version"): the "version" file
\* that a write for the project goes to
version_file(project) == project

\* the file ota_files/<project>/latest: the program opens no file of that name
\* (the one pointer file it writes is "version", lines 125, 160, 222)
latest(p) == NoFile

\* tags[:count]
Take(s, count) == SubSeq(s, 1, IF Len(s) < count THEN Len(s) ELSE count)

----------------------------------------------------------------------------
(* The threads *)

Threads == { "http", "bg" }

\* a thread between two pieces of work.  dl, wrote, had and was are history:
\* the tags whose archive the thread asked for, whether it wrote "version", and
\* whether every tag it got had a version directory with a file in it, in the
\* sync it is in (or was last in); and what the version directory held when the
\* fetch_github_release it is in tested it.
Rest(pc, k) ==
    [ pc |-> pc, op |-> None, project |-> None, tags |-> <<>>, i |-> 0,
      todo |-> <<>>, data |-> <<>>, resp |-> 0, err |-> None, seen |-> NoFile,
      k |-> k, dl |-> {}, wrote |-> FALSE, had |-> FALSE, was |-> {} ]

\* what tells one operator request from another: the path, the project and, for
\* /set_version, the version
Arg(t) == IF t.op = "set_version" THEN t.data ELSE <<>>

\* no request to remember
NoLast ==
    [ op |-> None, project |-> None, arg |-> <<>>, tags |-> <<>>, resp |-> 0,
      version |-> [ p \in DOMAIN PROJECTS |-> NoFile ],
      dirs |-> [ p \in DOMAIN PROJECTS |-> <<>> ] ]

\* the request the thread t is in is the one remembered
SameRequest(t, l) == t.op = l.op /\ t.project = l.project /\ Arg(t) = l.arg

\* the periodic thread is not inside a pass: it has not begun its first, or it
\* sleeps for SYNC_INTERVAL
Asleep == th["bg"].pc = "loop" /\ th["bg"].k = 1

\* the request thread takes a step: when the step ends the handling of an
\* operator request while the periodic thread sleeps, the request is remembered
\* with the tags it got, its status and the pointers and directories it leaves;
\* it stays remembered as long as the same request comes next
Remember ==
    LET t == th["http"]
        u == th'["http"]
    IN  last' = IF t.pc # "respond" /\ u.pc = "respond"
                THEN IF u.op \in { "sync_now", "rollback", "set_version" } /\ Asleep
                     THEN [ op |-> u.op, project |-> u.project, arg |-> Arg(u),
                            tags |-> u.tags, resp |-> u.resp,
                            version |-> version', dirs |-> dirs' ]
                     ELSE NoLast
                ELSE IF t.pc = "idle" /\ ~SameRequest(u, last) THEN NoLast
                ELSE last

\* something else than the request thread takes a step
Forget == last' = NoLast

\* a step of fetch_github_release, by the thread that takes it
Note(self) == IF self = "http" THEN Remember ELSE Forget

Init ==
    /\ remote = [ r \in Repos |-> <<>> ]
    /\ dirs = [ p \in DOMAIN PROJECTS |-> <<>> ]
    /\ version = [ p \in DOMAIN PROJECTS |-> NoFile ]
    /\ th = [ s \in Threads |-> IF s = "http" THEN Rest("idle", 0) ELSE Rest("loop", 1) ]
    /\ verBy = [ p \in DOMAIN PROJECTS |-> [ by |-> None, data |-> <<>> ] ]
    /\ done = [ p \in DOMAIN PROJECTS |-> {} ]
    /\ last = NoLast

\* the handler sends its response (or, with resp = 0, dies of an exception that
\* socketserver reports) and the server takes the next request
Finish(t, resp, err) == [ t EXCEPT !.pc = "respond", !.resp = resp, !.err = err ]

\* the loop over the tags is over: /sync_now answers 200 (lines 146-148), the
\* periodic loop goes to its next project (line 240)
EndOfTags(self, t) ==
    IF self = "http" THEN Finish(t, 200, None)
    ELSE [ t EXCEPT !.pc = "loop", !.k = t.k + 1 ]

\* fetch_github_release returned: the caller's loop takes the next tag
Returned(self, t) ==
    IF t.i < Len(t.tags)
    THEN [ t EXCEPT !.pc = "fetch_check", !.i = t.i + 1, !.todo = <<>> ]
    ELSE EndOfTags(self, t)

\* an exception leaves get_latest_tags or fetch_github_release: /sync_now catches
\* every Exception and answers 500 (lines 149-152); sync_latest_releases catches
\* requests.exceptions.RequestException alone (line 246), and any other
\* exception leaves periodic_sync and ends its thread
Raised(self, t, kind) ==
    IF self = "http" THEN Finish(t, 500, kind)
    ELSE IF kind = "RequestException" THEN [ t EXCEPT !.pc = "log", !.err = kind ]
    ELSE [ t EXCEPT !.pc = "dead", !.err = kind ]

\* get_latest_tags(repo, count=2) answered: the loop over the tags starts
GotTags(self, t, p, tags) ==
    LET u == [ t EXCEPT !.project = p, !.tags = tags, !.i = 1, !.todo = <<>>,
                        !.dl = {}, !.wrote = FALSE, !.err = None,
                        !.had = \A n \in 1..Len(tags) : Listing(p, tags[n]) # {} ]
    IN  IF tags = <<>> THEN EndOfTags(self, [ u EXCEPT !.i = 0 ])
        ELSE [ u EXCEPT !.pc = "fetch_check" ]

----------------------------------------------------------------------------
(* fetch_github_release(tag, project, repo), run by either thread *)

\* lines 204-209: the directory exists and holds a file: return; otherwise make
\* it.  The test and makedirs are one step: makedirs changes nothing that the
\* test of the other thread reads (an empty directory counts as not synced).
FetchCheck(self) ==
    LET t == th[self]
        p == t.project
        tag == t.tags[t.i]
    IN  /\ t.pc = "fetch_check"
        /\ IF AlreadySynced(p, tag)
           THEN /\ th' = [ th EXCEPT ![self] = Returned(self, t) ]
                /\ UNCHANGED dirs
           ELSE /\ dirs' = [ dirs EXCEPT ![p] = makedirs(dirs[p], tag) ]
                /\ th' = [ th EXCEPT ![self] =
                             [ t EXCEPT !.pc = "fetch_get", !.was = Listing(p, tag) ] ]
        /\ UNCHANGED <<remote, version, verBy, done>>
        /\ Note(self)

\* lines 210-215: the archive is asked for; it arrives and opens as a zip file,
\* or requests raises (no connection, or raise_for_status), or zipfile raises
\* BadZipFile.  The entries the loop of lines 216-220 will write are then known.
FetchGet(self) ==
    LET t == th[self]
        tag == t.tags[t.i]
        u == [ t EXCEPT !.dl = t.dl \cup {tag} ]
        names == SelectedNames(Archive(PROJECTS[t.project], tag))
    IN  /\ t.pc = "fetch_get"
        /\ \/ th' = [ th EXCEPT ![self] =
                        [ u EXCEPT !.todo = names,
                                   !.pc = IF names = <<>> THEN "fetch_vopen"
                                          ELSE "fetch_extract" ] ]
           \/ th' = [ th EXCEPT ![self] = Raised(self, u, "RequestException") ]
           \/ th' = [ th EXCEPT ![self] = Raised(self, u, "BadZipFile") ]
        /\ UNCHANGED <<remote, dirs, version, verBy, done>>
        /\ Note(self)

\* lines 216-220, one entry: the file is written under its base name; or open
\* raises OSError and leaves nothing; or write raises OSError, the file made
WriteEntry(self) ==
    LET t == th[self]
        p == t.project
        tag == t.tags[t.i]
        name == Head(t.todo)
        rest == Tail(t.todo)
        written == [ dirs EXCEPT ![p][tag] = dirs[p][tag] \cup {name} ]
    IN  /\ t.pc = "fetch_extract"
        /\ IF tag \in DOMAIN dirs[p]
           THEN \/ /\ dirs' = written
                   /\ th' = [ th EXCEPT ![self] =
                                [ t EXCEPT !.todo = rest,
                                           !.pc = IF rest = <<>> THEN "fetch_vopen"
                                                  ELSE "fetch_extract" ] ]
                \/ /\ UNCHANGED dirs
                   /\ th' = [ th EXCEPT ![self] = Raised(self, t, "OSError") ]
                \/ /\ dirs' = written
                   /\ th' = [ th EXCEPT ![self] = Raised(self, t, "OSError") ]
           ELSE /\ UNCHANGED dirs
                /\ th' = [ th EXCEPT ![self] = Raised(self, t, "OSError") ]
        /\ UNCHANGED <<remote, version, verBy, done>>
        /\ Note(self)

\* lines 222-223: open(version_file, "w")
FetchOpenVersion(self) ==
    LET t == th[self]
        p == t.project
    IN  /\ t.pc = "fetch_vopen"
        /\ version' = [ version EXCEPT ![version_file(p)] = OpenForWrite(version[version_file(p)]) ]
        /\ th' = [ th EXCEPT ![self] = [ t EXCEPT !.pc = "fetch_vwrite" ] ]
        /\ UNCHANGED <<remote, dirs, verBy, done>>
        /\ Note(self)

\* lines 224-226: vf.write(tag), flushed as the file closes; the function returns
FetchWriteVersion(self) ==
    LET t == th[self]
        p == t.project
        tag == t.tags[t.i]
    IN  /\ t.pc = "fetch_vwrite"
        /\ version' = [ version EXCEPT ![version_file(p)] = WriteAtStart(version[version_file(p)], tag) ]
        /\ verBy' = [ verBy EXCEPT ![p] = [ by |-> "sync", data |-> tag ] ]
        /\ done' = [ done EXCEPT ![p] = done[p] \cup {tag} ]
        /\ th' = [ th EXCEPT ![self] = Returned(self, [ t EXCEPT !.wrote = TRUE ]) ]
        /\ UNCHANGED <<remote, dirs>>
        /\ Note(self)

----------------------------------------------------------------------------
(* The periodic thread: periodic_sync and sync_latest_releases *)

\* lines 240-242, a project is left in the loop: get_latest_tags answers with
\* the first two tags of the host's list, or requests raises
BgNextProject ==
    LET t == th["bg"]
        p == ProjectOrder[t.k]
    IN  /\ t.pc = "loop"
        /\ t.k <= Len(ProjectOrder)
        /\ \/ th' = [ th EXCEPT !["bg"] = GotTags("bg", t, p, Take(remote[PROJECTS[p]], 2)) ]
           \/ th' = [ th EXCEPT !["bg"] =
                        Raised("bg", [ t EXCEPT !.project = p, !.tags = <<>>, !.i = 0,
                                                !.dl = {}, !.wrote = FALSE,
                                                !.had = FALSE ],
                               "RequestException") ]
        /\ UNCHANGED <<remote, dirs, version, verBy, done>>
        /\ Forget

\* line 247: the except clause prints, and the loop goes on
BgLogError ==
    LET t == th["bg"]
    IN  /\ t.pc = "log"
        /\ th' = [ th EXCEPT !["bg"] = [ t EXCEPT !.pc = "loop", !.k = t.k + 1 ] ]
        /\ UNCHANGED <<remote, dirs, version, verBy, done>>
        /\ Forget

\* lines 257-259: the pass is over; after time.sleep(SYNC_INTERVAL) the next starts
BgSleep ==
    LET t == th["bg"]
    IN  /\ t.pc = "loop"
        /\ t.k > Len(ProjectOrder)
        /\ th' = [ th EXCEPT !["bg"] = Rest("loop", 1) ]
        /\ UNCHANGED <<remote, dirs, version, verBy, done>>
        /\ Forget

----------------------------------------------------------------------------
(* The request thread: AuthHandler.do_GET, for an authenticated request *)

\* the values of the project parameter: a configured project, another name, none
RequestProjects == DOMAIN PROJECTS \cup { "ghost", None }

\* the values of the version parameter: a tag name, or none (parse_qs drops a
\* blank value, and the handler tests the value for truth)
RequestVersions == Tags \cup { <<>> }

\* the test of line 124 with the version parameter not looked at: a variant that
\* C12 must tell from the code
SetVersionBlankAccepted(project, new_version) == project \in DOMAIN PROJECTS

\* line 124: new_version and project in PROJECTS
ValidSetVersion(project, new_version) ==
    new_version # <<>> /\ project \in DOMAIN PROJECTS

\* lines 121-136, /set_version: up to open(version_file, "w"), which raises
\* FileNotFoundError when the project directory does not exist
SetVersion(project, new_version) ==
    LET t == [ th["http"] EXCEPT !.op = "set_version", !.project = project,
                                 !.data = new_version ]
    IN  /\ th["http"].pc = "idle"
        /\ IF ValidSetVersion(project, new_version)
           THEN IF ProjectDirExists(project)
                THEN /\ version' = [ version EXCEPT ![version_file(project)] = OpenForWrite(version[version_file(project)]) ]
                     /\ th' = [ th EXCEPT !["http"] = [ t EXCEPT !.pc = "sv_write" ] ]
                ELSE /\ th' = [ th EXCEPT !["http"] = Finish(t, 0, "FileNotFoundError") ]
                     /\ UNCHANGED version
           ELSE /\ th' = [ th EXCEPT !["http"] = Finish(t, 400, None) ]
                /\ UNCHANGED version
        /\ UNCHANGED <<remote, dirs, verBy, done>>
        /\ Remember

\* lines 127-131: vf.write(new_version), flushed as the file closes; 200
SetVersionWrite ==
    LET t == th["http"]
        p == t.project
    IN  /\ t.pc = "sv_write"
        /\ version' = [ version EXCEPT ![version_file(p)] = WriteAtStart(version[version_file(p)], t.data) ]
        /\ verBy' = [ verBy EXCEPT ![p] = [ by |-> "set_version", data |-> t.data ] ]
        /\ th' = [ th EXCEPT !["http"] = Finish(t, 200, None) ]
        /\ UNCHANGED <<remote, dirs, done>>
        /\ Remember

\* lines 138-143, /sync_now: get_latest_tags answers or raises; a project that is
\* not configured falls through to SimpleHTTPRequestHandler.do_GET, which finds
\* no such file
SyncNow(project) ==
    LET t == [ th["http"] EXCEPT !.op = "sync_now", !.project = project ]
    IN  /\ th["http"].pc = "idle"
        /\ IF project \in DOMAIN PROJECTS
           THEN \/ th' = [ th EXCEPT !["http"] =
                             GotTags("http", t, project, Take(remote[PROJECTS[project]], 2)) ]
                \/ th' = [ th EXCEPT !["http"] = Raised("http", t, "RequestException") ]
           ELSE th' = [ th EXCEPT !["http"] = Finish(t, 404, None) ]
        /\ UNCHANGED <<remote, dirs, version, verBy, done>>
        /\ Remember

\* line 163: versions[-2]
RollbackTarget(versions) == versions[Len(versions) - 1]

\* lines 155-161, /rollback: the version directories are listed and sorted;
\* os.listdir raises FileNotFoundError when the project directory does not exist
Rollback(project) ==
    LET t == [ th["http"] EXCEPT !.op = "rollback", !.project = project ]
        versions == sorted(DOMAIN dirs[project])
    IN  /\ th["http"].pc = "idle"
        /\ th' = [ th EXCEPT !["http"] =
                     IF project \notin DOMAIN PROJECTS THEN Finish(t, 404, None)
                     ELSE IF ~ProjectDirExists(project) THEN Finish(t, 0, "FileNotFoundError")
                     ELSE IF Len(versions) >= 2
                          THEN [ t EXCEPT !.pc = "rb_open", !.data = RollbackTarget(versions) ]
                          ELSE Finish(t, 400, None) ]
        /\ UNCHANGED <<remote, dirs, version, verBy, done>>
        /\ Remember

\* line 162: open(version_file, "w")
RollbackOpen ==
    LET t == th["http"]
        p == t.project
    IN  /\ t.pc = "rb_open"
        /\ version' = [ version EXCEPT ![version_file(p)] = OpenForWrite(version[version_file(p)]) ]
        /\ th' = [ th EXCEPT !["http"] = [ t EXCEPT !.pc = "rb_write" ] ]
        /\ UNCHANGED <<remote, dirs, verBy, done>>
        /\ Remember

\* lines 163-166: vf.write(versions[-2]), flushed as the file closes; 200
RollbackWrite ==
    LET t == th["http"]
        p == t.project
    IN  /\ t.pc = "rb_write"
        /\ version' = [ version EXCEPT ![version_file(p)] = WriteAtStart(version[version_file(p)], t.data) ]
        /\ verBy' = [ verBy EXCEPT ![p] = [ by |-> "rollback", data |-> t.data ] ]
        /\ th' = [ th EXCEPT !["http"] = Finish(t, 200, None) ]
        /\ UNCHANGED <<remote, dirs, done>>
        /\ Remember

\* lines 71-78, the listing of a project directory: the "version" file is read
\* if it exists (strip() takes nothing from a tag name, which holds no blank)
ListDirectory(project) ==
    LET t == [ th["http"] EXCEPT !.op = "list", !.project = project ]
    IN  /\ th["http"].pc = "idle"
        /\ project \in DOMAIN PROJECTS
        /\ ProjectDirExists(project)
        /\ th' = [ th EXCEPT !["http"] = Finish([ t EXCEPT !.seen = version[project] ], 200, None) ]
        /\ UNCHANGED <<remote, dirs, version, verBy, done>>
        /\ Remember

\* the response is sent and the server takes the next request
Respond ==
    /\ th["http"].pc = "respond"
    /\ th' = [ th EXCEPT !["http"] = Rest("idle", 0) ]
    /\ UNCHANGED <<remote, dirs, version, verBy, done>>
    /\ Remember

----------------------------------------------------------------------------
(* The hosts *)

\* a repository gets a new tag; where the host lists it is the host's business
Publish(repo, tag, at) ==
    /\ tag \in RepoTags(repo)
    /\ \A n \in 1..Len(remote[repo]) : remote[repo][n] # tag
    /\ at \in 0..Len(remote[repo])
    /\ remote' = [ remote EXCEPT ![repo] =
                     SubSeq(remote[repo], 1, at) \o <<tag>>
                       \o SubSeq(remote[repo], at + 1, Len(remote[repo])) ]
    /\ UNCHANGED <<dirs, version, th, verBy, done>>
    /\ Forget

----------------------------------------------------------------------------

\* a step of fetch_github_release
FetchStep(self) ==
    \/ FetchCheck(self)
    \/ FetchGet(self)
    \/ WriteEntry(self)
    \/ FetchOpenVersion(self)
    \/ FetchWriteVersion(self)

\* a step of the request thread
RequestStep ==
    \/ \E project \in RequestProjects :
          \/ \E new_version \in RequestVersions : SetVersion(project, new_version)
          \/ SyncNow(project)
          \/ Rollback(project)
          \/ ListDirectory(project)
    \/ FetchStep("http")
    \/ SetVersionWrite
    \/ RollbackOpen
    \/ RollbackWrite
    \/ Respond

\* a step of the periodic thread
PeriodicStep ==
    \/ BgNextProject
    \/ FetchStep("bg")
    \/ BgLogError
    \/ BgSleep

\* a step of a host
HostStep ==
    \E repo \in Repos, tag \in Tags, at \in 0..NumTags : Publish(repo, tag, at)

Next == RequestStep \/ PeriodicStep \/ HostStep

Spec == Init /\ [][Next]_vars

\* the behaviours in which the periodic thread does not run (it is not yet
\* scheduled, or sleeps): the requests alone, one after the other
SpecRequests == Init /\ [][RequestStep \/ HostStep]_vars

\* the behaviours in which no request arrives: the periodic thread alone
SpecPeriodic == Init /\ [][PeriodicStep \/ HostStep]_vars

----------------------------------------------------------------------------
(* Version Ordering, as the specification defines it (the code has none) *)

\* the numbers of a dotted name, from character n on, acc being the number begun
RECURSIVE NumbersFrom(_, _, _)
NumbersFrom(s, n, acc) ==
    IF n > Len(s) THEN <<acc>>
    ELSE IF s[n] = 46 THEN <<acc>> \o NumbersFrom(s, n + 1, 0)
    ELSE NumbersFrom(s, n + 1, acc * 10 + (s[n] - 48))

\* major, minor, patch of a tag name
SemVer(s) == NumbersFrom(s, 1, 0)

\* a is an older version than b
Older(a, b) ==
    LET x == SemVer(a)
        y == SemVer(b)
    IN  \/ x[1] < y[1]
        \/ x[1] = y[1] /\ x[2] < y[2]
        \/ x[1] = y[1] /\ x[2] = y[2] /\ x[3] < y[3]

\* the newest of a non-empty set of tag names
Newest(S) == CHOOSE x \in S : \A y \in S \ {x} : Older(y, x)

\* the second-newest of a set of at least two tag names
SecondNewest(S) == Newest(S \ {Newest(S)})

Range(s) == { s[n] : n \in 1..Len(s) }

----------------------------------------------------------------------------
(* What the claims speak of *)

Other(self) == IF self = "http" THEN "bg" ELSE "http"

\* the thread is inside the loop over the tags of project p
InSync(self, p) ==
    /\ th[self].project = p
    /\ th[self].pc \in { "fetch_check", "fetch_get", "fetch_extract", "fetch_vopen",
                         "fetch_vwrite" }

\* the thread is inside fetch_github_release for tag of p, past the test
Materializing(self, p, tag) ==
    /\ th[self].project = p
    /\ th[self].pc \in { "fetch_get", "fetch_extract", "fetch_vopen", "fetch_vwrite" }
    /\ th[self].tags[th[self].i] = tag

\* the thread is between open and close of the "version" file of p
WritingVersion(self, p) ==
    /\ th[self].project = p
    /\ th[self].pc \in { "fetch_vwrite", "sv_write", "rb_write" }

\* the thread has work in hand on project p
Busy(self, p) ==
    /\ th[self].project = p
    /\ th[self].pc \notin { "idle", "respond", "loop", "log", "dead" }

\* the thread has just ended a sync of p in which get_latest_tags gave tags and
\* nothing raised
SyncSucceeded(self, p) ==
    /\ th[self].project = p
    /\ th[self].tags # <<>>
    /\ th[self].err = None
    /\ IF self = "http"
       THEN th[self].pc = "respond" /\ th[self].op = "sync_now" /\ th[self].resp = 200
       ELSE th[self].pc = "loop"

\* the thread has just ended a sync of p in which fetch_github_release raised
\* for tags[i]
SyncFailedAt(self, p, tag) ==
    /\ th[self].project = p
    /\ th[self].i >= 1
    /\ th[self].tags[th[self].i] = tag
    /\ th[self].err # None
    /\ IF self = "http"
       THEN th[self].pc = "respond" /\ th[self].op = "sync_now"
       ELSE th[self].pc \in { "log", "dead" }

----------------------------------------------------------------------------
(* The claims *)

\* C1: a step that ends a sync of a project (sync-now or periodic) in which the
\* host gave at least one tag, every fetched tag was materialized and nothing
\* failed, the other thread not being at work on the project, leaves the
\* "version" pointer holding the newest of the fetched tags.
C1_VersionIsNewestFetched ==
    [][ \A self \in Threads, p \in DOMAIN PROJECTS :
            /\ ~SyncSucceeded(self, p)
            /\ SyncSucceeded(self, p)'
            /\ th'[self].dl = Range(th'[self].tags)
            /\ ~Busy(Other(self), p)
            => version'[p] = File(Newest(Range(th'[self].tags))) ]_vars

\* C2: the step that ends a /rollback with 200, the periodic thread not being
\* at work on the project, leaves "version" holding the second-newest of the
\* version directories by Version Ordering.
C2_RollbackToSecondNewest ==
    [][ \A p \in DOMAIN PROJECTS :
            /\ th["http"].pc = "rb_write" /\ th["http"].project = p
            /\ th'["http"].pc = "respond"
            /\ ~Busy("bg", p)
            => version'[p] = File(SecondNewest(DOMAIN dirs'[p])) ]_vars

\* C3: a sync of a project in which materializing the newest of the fetched tags
\* failed has not written the "version" pointer of the project.
C3_NewestFailedPointerKept ==
    \A self \in Threads, p \in DOMAIN PROJECTS :
        SyncFailedAt(self, p, Newest(Range(th[self].tags))) => ~th[self].wrote

\* C4: at most one sync is in flight per project at a time, and no two
\* materializations of the same project and tag run at the same time.
C4_OneSyncPerProject ==
    \A p \in DOMAIN PROJECTS :
        /\ ~(InSync("http", p) /\ InSync("bg", p))
        /\ \A tag \in Tags : ~(Materializing("http", p, tag) /\ Materializing("bg", p, tag))

\* C4, its second half alone
C4_OneMaterializationPerTag ==
    \A p \in DOMAIN PROJECTS, tag \in Tags :
        ~(Materializing("http", p, tag) /\ Materializing("bg", p, tag))

\* C5: while a sync-now and the periodic sync of the same project are both in
\* flight on the same tag list, no archive has been asked for by both.
C5_NoDuplicateDownload ==
    \A p \in DOMAIN PROJECTS :
        InSync("http", p) /\ InSync("bg", p) /\ th["http"].tags = th["bg"].tags
            => th["http"].dl \cap th["bg"].dl = {}

\* C6: a call of fetch_github_release for a project and tag for which an earlier
\* call ran to its end returns from its test: it does not go on to ask for the
\* archive.
C6_SecondMaterializeNoNetwork ==
    [][ \A self \in Threads :
            /\ th[self].pc = "fetch_check"
            /\ th[self].tags[th[self].i] \in done[th[self].project]
            => th'[self].pc # "fetch_get" ]_vars

\* C7: the periodic pass is never ended by a failure in one project while
\* another project is still to be synced in that pass.
C7_FailureIsolated ==
    ~(th["bg"].pc = "dead" /\ th["bg"].k < Len(ProjectOrder))

\* C8: the periodic thread never terminates.
C8_PeriodicNeverTerminates ==
    th["bg"].pc # "dead"

\* C9: whenever the "version" file of a project holds, whole, the tag that a
\* sync or a rollback last wrote to it, the version directory of that tag exists.
C9_PointerTargetExists ==
    \A p \in DOMAIN PROJECTS :
        /\ verBy[p].by \in { "sync", "rollback" }
        /\ version[p] = File(verBy[p].data)
        => verBy[p].data \in DOMAIN dirs[p]

\* C9, witness: a rollback wrote the pointer while a sync of the same project
\* was in flight, and the pointer holds the rollback's tag
C9_Witness ==
    \E p \in DOMAIN PROJECTS :
        /\ verBy[p].by = "rollback"
        /\ version[p] = File(verBy[p].data)
        /\ InSync("bg", p)
        /\ Cardinality(DOMAIN dirs[p]) = NumTags

\* C10: a listing that reads the "version" file of a project while the periodic
\* thread is between open and close of that file sees a whole tag name.
C10_ReaderSeesWholeValue ==
    [][ \A p \in DOMAIN PROJECTS :
            /\ th["http"].pc = "idle"
            /\ th'["http"].pc = "respond" /\ th'["http"].op = "list"
            /\ th'["http"].project = p
            /\ WritingVersion("bg", p)
            => th'["http"].seen.content \in Tags ]_vars

\* C11: a /rollback of a configured project that has fewer than two version
\* directories answers 400 (no previous version) and leaves the "version"
\* pointers and the version directories as they were.
C11_RollbackInsufficientHistory ==
    [][ \A p \in DOMAIN PROJECTS :
            /\ th["http"].pc = "idle"
            /\ th'["http"].op = "rollback" /\ th'["http"].project = p
            /\ Cardinality(DOMAIN dirs[p]) < 2
            => /\ th'["http"].pc = "respond" /\ th'["http"].resp = 400
               /\ version' = version /\ dirs' = dirs ]_vars

\* C12: a /sync_now, /rollback or /set_version that names no configured project,
\* and a /set_version without a version, is answered at once with an error
\* status (400, or the 404 of the file handler it falls through to), and the
\* "version" pointers and the version directories stay as they were.
C12_InvalidRequestRejected ==
    [][ /\ th["http"].pc = "idle"
        /\ th'["http"].op \in { "sync_now", "rollback", "set_version" }
        /\ \/ th'["http"].project \notin DOMAIN PROJECTS
           \/ th'["http"].op = "set_version" /\ th'["http"].data = <<>>
        => /\ th'["http"].pc = "respond"
           /\ th'["http"].resp \in { 400, 404 }
           /\ version' = version /\ dirs' = dirs ]_vars

\* C12, witness: a /set_version without a version, for a configured project
\* whose "version" file exists, has been answered 400
C12_Witness ==
    /\ th["http"].pc = "respond" /\ th["http"].op = "set_version"
    /\ th["http"].project \in DOMAIN PROJECTS /\ th["http"].data = <<>>
    /\ th["http"].resp = 400
    /\ version[th["http"].project].exists

\* C13: a /set_version for a configured project with a version given ends with
\* the "version" file of the project holding exactly that version, and none of
\* its steps changes a version directory or the pointer of another project.
C13_SetVersionUnconditional ==
    [][ \A p \in DOMAIN PROJECTS :
            /\ th["http"].pc \in { "idle", "sv_write" }
            /\ th'["http"].op = "set_version" /\ th'["http"].project = p
            /\ th'["http"].data # <<>>
            => /\ dirs' = dirs
               /\ \A q \in DOMAIN PROJECTS \ {p} : version'[q] = version[q]
               /\ th'["http"].pc = "respond" => version'[p] = File(th'["http"].data) ]_vars

\* C14: when the same operator request (/sync_now, /rollback or /set_version,
\* same project, same version) is handled twice in succession, the periodic
\* thread being outside a pass when the first ends and no other step being
\* taken from there to the end of the second, and the first, if a /sync_now,
\* did not fail (500) and got the tags the host still lists, then the second
\* leaves the "version" pointers and the version directories as the first left
\* them.
C14_OperationIdempotent ==
    [][ /\ th["http"].pc # "respond" /\ th'["http"].pc = "respond"
        /\ last.op \in { "sync_now", "rollback", "set_version" }
        /\ SameRequest(th'["http"], last)
        /\ last.op = "sync_now" => last.resp # 500
        /\ last.op = "sync_now" /\ last.project \in DOMAIN PROJECTS
              => last.tags = Take(remote[PROJECTS[last.project]], 2)
        => version' = last.version /\ dirs' = last.dirs ]_vars

\* C15: once a materialization of a tag of a project has run to its end, the
\* "latest" pointer of the project exists and holds a tag whose materialization
\* ran to its end.
C15_LatestFollowsMaterialization ==
    \A p \in DOMAIN PROJECTS :
        done[p] # {} => latest(p).exists /\ latest(p).content \in done[p]

\* C16: a step that changes the "version" pointer or a version directory of a
\* project is a step of a thread that is at work on that project: what is done
\* for one project, in any interleaving, leaves the others' as they were.
C16_ProjectsIndependent ==
    [][ \A q \in DOMAIN PROJECTS :
            version'[q] # version[q] \/ dirs'[q] # dirs[q]
            => \E self \in Threads : th'[self] # th[self] /\ th'[self].project = q ]_vars

\* C16, witness: the two threads are at work on different projects, each of
\* which has a "version" file and a version directory
C16_Witness ==
    /\ InSync("bg", "lib") /\ Busy("http", "app")
    /\ version["app"].exists /\ version["lib"].exists
    /\ ProjectDirExists("app") /\ ProjectDirExists("lib")

\* the step is one of thread self inside fetch_github_release for tag of p
MaterializeStep(self, p, tag) ==
    /\ Materializing(self, p, tag)
    /\ th'[self] # th[self]

\* C17: no step removes a version directory or a file of one; a file is written
\* to a version directory only by a fetch_github_release for that project and
\* tag; and every step of a fetch_github_release past its test is of one that
\* found the directory without a file when it tested it.
C17_PopulatedDirectoryImmutable ==
    [][ /\ \A p \in DOMAIN PROJECTS : \A tag \in DOMAIN dirs[p] :
              /\ tag \in DOMAIN dirs'[p]
              /\ dirs[p][tag] \subseteq dirs'[p][tag]
              /\ dirs'[p][tag] # dirs[p][tag]
                    => \E self \in Threads : MaterializeStep(self, p, tag)
        /\ \A self \in Threads, p \in DOMAIN PROJECTS, tag \in Tags :
              MaterializeStep(self, p, tag) => th[self].was = {} ]_vars

\* C17, witness: a sync is past a tag whose directory, filled by an earlier
\* materialization, it found filled and left, while the other thread is at work
\* on the same project
C17_Witness ==
    \E self \in Threads, p \in DOMAIN PROJECTS :
        /\ InSync(self, p) /\ th[self].i = 2
        /\ th[self].tags[1] \notin th[self].dl
        /\ th[self].tags[1] \in done[p]
        /\ Listing(p, th[self].tags[1]) # {}
        /\ Busy(Other(self), p)

\* C18: a fetch_github_release for a project and tag whose directory an earlier
\* call made, no call for them having run to its end and none being under way
\* in the other thread, does not report the tag as already synced: it goes on
\* to fetch the archive.
C18_FailedMaterializationRetried ==
    [][ \A self \in Threads, p \in DOMAIN PROJECTS, tag \in Tags :
            /\ th[self].pc = "fetch_check" /\ th'[self] # th[self]
            /\ th[self].project = p /\ th[self].tags[th[self].i] = tag
            /\ tag \in DOMAIN dirs[p] /\ tag \notin done[p]
            /\ ~Materializing(Other(self), p, tag)
            => th'[self].pc = "fetch_get" ]_vars

\* C19: a sync of a project in which fetch_github_release raised for one of the
\* tags has not written the "version" pointer of the project.
C19_FailedSyncPointerKept ==
    \A self \in Threads, p \in DOMAIN PROJECTS :
        (\E tag \in Tags : SyncFailedAt(self, p, tag)) => ~th[self].wrote

\* C20: no step of a sync (periodic or /sync_now) of a project that began with
\* every tag it got having a version directory with a file in it changes a
\* "version" pointer or a version directory.
C20_SyncOfPresentTagsKeepsPointer ==
    [][ \A self \in Threads, p \in DOMAIN PROJECTS :
            /\ InSync(self, p) /\ th[self].had
            /\ th'[self] # th[self]
            => version' = version /\ dirs' = dirs ]_vars

\* C20, witness: a /sync_now of a project whose two tags had their directories
\* has been answered 200, and the pointer holds, whole, what the rollback or
\* set-version before it wrote
C20_Witness ==
    \E p \in DOMAIN PROJECTS :
        /\ th["http"].pc = "respond" /\ th["http"].op = "sync_now"
        /\ th["http"].project = p /\ th["http"].resp = 200
        /\ th["http"].had /\ Len(th["http"].tags) = 2
        /\ verBy[p].by \in { "rollback", "set_version" }
        /\ version[p] = File(verBy[p].data)

====
